---- MODULE Spec2Model ----
(***************************************************************************)
(* Model of the mirror-mode identity graph pipeline (index.js): the        *)
(* BigQuery dataset as a store of named tables, the directives of main,    *)
(* the DML transition of current_identity_graph, the materialization of    *)
(* identity_permutations and the readiness probe waitForTableToBeReady.    *)
(*                                                                         *)
(* Strings that the SQL compares (identity, cluster_id, the joined ids)    *)
(* are sequences of character codes, compared lexicographically as         *)
(* BigQuery compares STRINGs.  Timestamps are minutes relative to the      *)
(* start of the demo day (startTime.startOf('day')).                       *)
(***************************************************************************)
EXTENDS Integers, Sequences, FiniteSets

\* ---------------------------------------------------------------- bounds

\* identities in a current graph drawn for the materialization runs
MaxIds == 4
\* materialize() calls made in a row on one current graph
MaxCalls == 2
\* runs of main in a row
MaxRuns == 4
\* largest retries and maxInsertAttempts given to waitForTableToBeReady
MaxRetries == 3
MaxInsertAttempts == 3
\* probe inserts followed in one waitForTableToBeReady call
MaxProbes == 5
\* rows in a snapshot handed to the DML inserts
MaxSnapshotRows == 2

\* ---------------------------------------------------------------- strings

\* the separator of ARRAY_TO_STRING(ids, ',')
Comma == 44

foo == <<102, 111, 111>>
bar == <<98, 97, 114>>
baz == <<98, 97, 122>>
qux == <<113, 117, 120>>
something_unique_123 ==
    <<115, 111, 109, 101, 116, 104, 105, 110, 103, 95,
      117, 110, 105, 113, 117, 101, 95, 49, 50, 51>>

\* STRING comparison of the ORDER BY clauses: code point by code point,
\* a proper prefix first
RECURSIVE StrLess(_, _)
StrLess(s, t) ==
    IF t = <<>> THEN FALSE
    ELSE IF s = <<>> THEN TRUE
    ELSE IF Head(s) # Head(t) THEN Head(s) < Head(t)
    ELSE StrLess(Tail(s), Tail(t))

\* ARRAY_TO_STRING(ids, ',')
RECURSIVE ARRAY_TO_STRING(_)
ARRAY_TO_STRING(ids) ==
    IF ids = <<>> THEN <<>>
    ELSE IF Len(ids) = 1 THEN ids[1]
    ELSE ids[1] \o <<Comma>> \o ARRAY_TO_STRING(Tail(ids))

\* ---------------------------------------------------------------- tables

MAIN_DATASET == "mirror_mode_modeling_fun"
MIRROR_SNAPSHOT_DATASET == "mirror_mode_snapshots"

CURRENT == "current_identity_graph"
PERM == "identity_permutations"

\* the keys of tablesToData, in the order Object.entries walks them
tablesToData ==
    << "website_data", "crm_data", "server_logs",
       "identities_yesterday", "identities_today",
       "identities_tomorrow", "identities_day_after_tomorrow" >>

TableNames == {tablesToData[k] : k \in 1..Len(tablesToData)} \cup {CURRENT, PERM}

validUnchecked ==
    {"yesterday", "today", "tomorrow", "day_after_tomorrow", "next_week"}

valid == {"yesterday", "today", "tomorrow", "day_after_tomorrow"}

\* `identities_${which}`
srcTable(w) ==
    CASE w = "yesterday" -> "identities_yesterday"
      [] w = "today" -> "identities_today"
      [] w = "tomorrow" -> "identities_tomorrow"
      [] w = "day_after_tomorrow" -> "identities_day_after_tomorrow"
      [] OTHER -> "identities_"

\* ---------------------------------------------------------------- fixture

id_foo == [identity |-> foo, type |-> "anon_id", first_seen |-> 480]
id_bar == [identity |-> bar, type |-> "user_id", first_seen |-> 485]
id_baz == [identity |-> baz, type |-> "crm_user_id", first_seen |-> 720]
id_qux == [identity |-> qux, type |-> "master_user_id", first_seen |-> 1080]

identityGraphYesterday ==
    << [cluster_id |-> something_unique_123, as_of |-> -1440,
        identities |-> <<id_foo>>] >>
identityGraphToday ==
    << [cluster_id |-> something_unique_123, as_of |-> 0,
        identities |-> <<id_foo, id_bar>>] >>
identityGraphTomorrow ==
    << [cluster_id |-> something_unique_123, as_of |-> 1440,
        identities |-> <<id_foo, id_bar, id_baz>>] >>
identityGraphDayAfterTomorrow ==
    << [cluster_id |-> something_unique_123, as_of |-> 2880,
        identities |-> <<id_foo, id_bar, id_baz, id_qux>>] >>

tableDataWebsite ==
    << [event |-> "page view", identity |-> foo, timestamp |-> 480],
       [event |-> "scroll", identity |-> foo, timestamp |-> 481],
       [event |-> "click", identity |-> foo, timestamp |-> 482],
       [event |-> "dropdown", identity |-> foo, timestamp |-> 483],
       [event |-> "log in", identity |-> bar, timestamp |-> 485],
       [event |-> "doing stuff", identity |-> bar, timestamp |-> 486],
       [event |-> "doing more stuff", identity |-> bar, timestamp |-> 487],
       [event |-> "doing even more stuff", identity |-> bar, timestamp |-> 488] >>
tableDataCRM ==
    << [event |-> "lead created", crm_user_id |-> baz, timestamp |-> 720],
       [event |-> "campaign assigned", crm_user_id |-> baz, timestamp |-> 722] >>
tableDataServerLogs ==
    << [event |-> "server started", master_user_id |-> qux, timestamp |-> 1080],
       [event |-> "server stopped", master_user_id |-> qux, timestamp |-> 1085] >>

\* tablesToData[tableName]
dataOf(t) ==
    CASE t = "website_data" -> tableDataWebsite
      [] t = "crm_data" -> tableDataCRM
      [] t = "server_logs" -> tableDataServerLogs
      [] t = "identities_yesterday" -> identityGraphYesterday
      [] t = "identities_today" -> identityGraphToday
      [] t = "identities_tomorrow" -> identityGraphTomorrow
      [] t = "identities_day_after_tomorrow" -> identityGraphDayAfterTomorrow

\* ---------------------------------------------------------------- materialization query

\* ORDER BY id.first_seen, id.identity
IdBeforeByIdentityOnly(x, y) ==
    StrLess(x.identity, y.identity)

IdBeforeByFirstSeenOnly(x, y) ==
    x.first_seen < y.first_seen

IdBefore(x, y) ==
    \/ x.first_seen < y.first_seen
    \/ x.first_seen = y.first_seen /\ StrLess(x.identity, y.identity)

RECURSIVE InsertId(_, _)
InsertId(x, s) ==
    IF s = <<>> THEN <<x>>
    ELSE IF IdBefore(x, Head(s)) THEN <<x>> \o s
    ELSE <<Head(s)>> \o InsertId(x, Tail(s))

\* ARRAY(SELECT AS STRUCT ... FROM UNNEST(identities) AS id ORDER BY ...)
RECURSIVE sorted_ids(_)
sorted_ids(identities) ==
    IF identities = <<>> THEN <<>>
    ELSE InsertId(Head(identities), sorted_ids(Tail(identities)))

\* the CTE ids_with_idx: one row per row of the current graph
ids_with_idx(cur) ==
    [r \in 1..Len(cur) |->
        [cluster_id |-> cur[r].cluster_id, as_of |-> cur[r].as_of,
         sorted_ids |-> sorted_ids(cur[r].identities)]]

\* first arm of pairs: UNNEST(GENERATE_ARRAY(1, n-1)) WHERE n > 1
ChainPairsFromFirst(x) ==
    IF Len(x.sorted_ids) > 1
    THEN [k \in 1..(Len(x.sorted_ids) - 1) |->
            [cluster_id |-> x.cluster_id, as_of |-> x.as_of,
             ids |-> <<x.sorted_ids[1].identity, x.sorted_ids[k + 1].identity>>]]
    ELSE <<>>

ChainPairs(x) ==
    IF Len(x.sorted_ids) > 1
    THEN [k \in 1..(Len(x.sorted_ids) - 1) |->
            [cluster_id |-> x.cluster_id, as_of |-> x.as_of,
             ids |-> <<x.sorted_ids[k].identity, x.sorted_ids[k + 1].identity>>]]
    ELSE <<>>

\* second arm of pairs: WHERE ARRAY_LENGTH(sorted_ids) = 1
SinglePairsDropped(x) ==
    <<>>

SinglePairs(x) ==
    IF Len(x.sorted_ids) = 1
    THEN << [cluster_id |-> x.cluster_id, as_of |-> x.as_of,
             ids |-> <<x.sorted_ids[1].identity>>] >>
    ELSE <<>>

RECURSIVE Flatten(_)
Flatten(ss) ==
    IF ss = <<>> THEN <<>> ELSE Head(ss) \o Flatten(Tail(ss))

\* the CTE pairs: chain arm UNION ALL single arm
pairs(cur) ==
    Flatten([r \in 1..Len(cur) |-> ChainPairs(ids_with_idx(cur)[r])])
    \o Flatten([r \in 1..Len(cur) |-> SinglePairs(ids_with_idx(cur)[r])])

\* the final SELECT list
PermRow(p) ==
    [cluster_id |-> p.cluster_id, as_of |-> p.as_of, ids |-> p.ids,
     on_behalf_of |-> p.ids[1],
     distinct_ids_json |-> [distinct_ids |-> p.ids]]

\* ORDER BY cluster_id, as_of, ARRAY_TO_STRING(ids, ',')
RowBeforeByAsOfFirst(e, f) ==
    \/ e.as_of < f.as_of
    \/ /\ e.as_of = f.as_of
       /\ \/ StrLess(e.cluster_id, f.cluster_id)
          \/ /\ e.cluster_id = f.cluster_id
             /\ StrLess(ARRAY_TO_STRING(e.ids), ARRAY_TO_STRING(f.ids))

RowBefore(e, f) ==
    \/ StrLess(e.cluster_id, f.cluster_id)
    \/ /\ e.cluster_id = f.cluster_id
       /\ \/ e.as_of < f.as_of
          \/ /\ e.as_of = f.as_of
             /\ StrLess(ARRAY_TO_STRING(e.ids), ARRAY_TO_STRING(f.ids))

RECURSIVE InsertRow(_, _)
InsertRow(e, s) ==
    IF s = <<>> THEN <<e>>
    ELSE IF RowBefore(e, Head(s)) THEN <<e>> \o s
    ELSE <<Head(s)>> \o InsertRow(e, Tail(s))

RECURSIVE OrderRows(_)
OrderRows(s) ==
    IF s = <<>> THEN <<>> ELSE InsertRow(Head(s), OrderRows(Tail(s)))

\* the rows the SELECT of materializeIdentityPermutations returns
MaterializeQuery(cur) ==
    OrderRows([k \in 1..Len(pairs(cur)) |-> PermRow(pairs(cur)[k])])

\* CREATE OR REPLACE TABLE permTable AS <query>: the old rows are dropped
CreateOrReplaceAsAppending(old, new) ==
    old \o new

CreateOrReplaceAs(old, new) ==
    new

\* ---------------------------------------------------------------- statements

\* DELETE FROM destTable WHERE TRUE
DeleteAllFromKeepingRows(rs) ==
    rs

DeleteAllFrom(rs) ==
    <<>>

\* INSERT INTO destTable SELECT * FROM srcTable
InsertSelect(dest, src) ==
    dest \o src

\* the INSERT statement of one snapshot row: the STRUCTs are positional
\* (identity, type, first_seen)
rowToInsertSQL(table, row) ==
    [into |-> table,
     cluster_id |-> row.cluster_id,
     as_of |-> row.as_of,
     identitiesArray |->
        [k \in 1..Len(row.identities) |->
            <<row.identities[k].identity, row.identities[k].type,
              row.identities[k].first_seen>>]]

\* what `${row.as_of}` and `${id.first_seen}` give for a date that is not one
InvalidDate == -100000

\* TIMESTAMP('...') of the statement takes the literal
ValidTimestamp(v) ==
    v # InvalidDate

\* the statement runs: every TIMESTAMP literal in it is one
StatementValid(sql) ==
    /\ ValidTimestamp(sql.as_of)
    /\ \A k \in 1..Len(sql.identitiesArray) : ValidTimestamp(sql.identitiesArray[k][3])

\* the tables after INSERT INTO dest SELECT * FROM src: src is only read
CopyAllMovingRows(rs, dest, src) ==
    [rs EXCEPT ![dest] = InsertSelect(@, rs[src]), ![src] = <<>>]

CopyAll(rs, dest, src) ==
    [rs EXCEPT ![dest] = InsertSelect(@, rs[src])]

\* the row an INSERT ... VALUES statement adds under identityClusterSchema
InsertedRow(sql) ==
    [cluster_id |-> sql.cluster_id,
     as_of |-> sql.as_of,
     identities |->
        [k \in 1..Len(sql.identitiesArray) |->
            [identity |-> sql.identitiesArray[k][1],
             type |-> sql.identitiesArray[k][2],
             first_seen |-> sql.identitiesArray[k][3]]]]

\* tableRef.delete(): the table goes, and its rows with it
DroppedRowsKept(rs) ==
    rs

DroppedRows(rs) ==
    <<>>

\* ---------------------------------------------------------------- state

VARIABLES
    datasets,     \* the datasets of the project
    exists,       \* table name -> the table is in MAIN_DATASET
    rows,         \* table name -> its rows, in stored order
    directive,    \* the directive of the run of main
    pc,           \* the statement main is at
    status,       \* "idle", "running", "ok" (main returned), "error" (main threw)
                  \* or "abandoned" (the caller gave the run up)
    tbl,          \* buildTables: index of the entry of tablesToData being built
    row,          \* buildTables: index of the snapshot row being inserted
    snapshot,     \* buildTables: the rows of the entry being built
    runs,         \* runs of main started so far
    trail,        \* the directives of the earlier runs, while every one returned
    calls,        \* materialize() calls already made on this current graph
    unprobed,     \* tables this run created and has not called waitForTableToBeReady on
    concurrent,   \* setCurrentIdentityGraph calls in flight at once, and what they issued
    retries,            \* waitForTableToBeReady: parameter
    maxInsertAttempts,  \* waitForTableToBeReady: parameter
    i,                  \* waitForTableToBeReady: the for loop's counter
    insertAttempt,      \* waitForTableToBeReady: the while loop's counter
    wpc,                \* waitForTableToBeReady: the statement it is at
    ret,                \* waitForTableToBeReady: "none", "true", "false" or "threw"
    checks,             \* table.exists() calls made by waitForTableToBeReady
    probes,             \* table.insert([dummyRecord]) calls made
    observed,           \* a table.exists() call answered true
    answer              \* how the last probe insert was answered

storeVars == <<datasets, exists, rows>>
runVars == <<directive, pc, status, tbl, row, snapshot, runs, trail>>
waitVars ==
    <<retries, maxInsertAttempts, i, insertAttempt, wpc, ret, checks, probes,
      observed, answer>>
vars ==
    <<datasets, exists, rows, directive, pc, status, tbl, row, snapshot, runs, trail,
      calls, unprobed, concurrent,
      retries, maxInsertAttempts, i, insertAttempt, wpc, ret, checks, probes,
      observed, answer>>

\* no waitForTableToBeReady call is being followed
WaitIdle ==
    /\ retries = 0
    /\ maxInsertAttempts = 0
    /\ i = 0
    /\ insertAttempt = 0
    /\ wpc = "idle"
    /\ ret = "none"
    /\ checks = 0
    /\ probes = 0
    /\ observed = FALSE
    /\ answer = "none"

\* no setCurrentIdentityGraph calls are being followed side by side
NoCalls == [which |-> <<>>, at |-> <<>>, issued |-> <<>>]

\* the dataset before the first run: nothing in it
EmptyStore ==
    /\ datasets = {}
    /\ exists = [t \in TableNames |-> FALSE]
    /\ rows = [t \in TableNames |-> <<>>]

\* ---------------------------------------------------------------- main

Directives ==
    {"build", "transition-today", "transition-tomorrow",
     "transition-day-after-tomorrow", "delete", "default"}

\* the argument main gives setCurrentIdentityGraph
WhichOf(d) ==
    CASE d = "build" -> "yesterday"
      [] d = "transition-today" -> "today"
      [] d = "transition-tomorrow" -> "tomorrow"
      [] d = "transition-day-after-tomorrow" -> "day_after_tomorrow"

Broken == <<"failed">>

\* the statement threw and main returned all the same
ThrowLogged ==
    /\ status' = "ok"
    /\ UNCHANGED <<pc, tbl, row, snapshot>>

\* the statement threw: main rejects, nothing after it runs
Throw ==
    /\ status' = "error"
    /\ UNCHANGED <<pc, tbl, row, snapshot>>

Goto(p) ==
    /\ pc' = p
    /\ status' = "running"

\* what a statement of the run leaves alone, the answer of
\* waitForTableToBeReady and the tables not probed yet apart
CallFrame ==
    /\ UNCHANGED <<directive, runs, trail, calls, concurrent>>
    /\ UNCHANGED <<retries, maxInsertAttempts, i, insertAttempt, wpc, checks, probes,
                   observed, answer>>

RunFrame ==
    /\ CallFrame
    /\ UNCHANGED <<ret, unprobed>>

Init ==
    /\ EmptyStore
    /\ directive = "none"
    /\ pc = "idle"
    /\ status = "idle"
    /\ tbl = 0
    /\ row = 0
    /\ snapshot = <<>>
    /\ runs = 0
    /\ trail = <<>>
    /\ calls = 0
    /\ unprobed = {}
    /\ concurrent = NoCalls
    /\ WaitIdle

\* the script is started with DIRECTIVE = d
main(d) ==
    /\ status # "running"
    /\ runs < MaxRuns
    /\ runs' = runs + 1
    /\ directive' = d
    /\ trail' = IF status = "idle" THEN <<>>
                ELSE IF status = "ok" /\ trail # Broken THEN Append(trail, directive)
                ELSE Broken
    /\ Goto("ensureMain")
    /\ tbl' = 0
    /\ row' = 0
    /\ snapshot' = <<>>
    /\ ret' = "none"
    /\ unprobed' = {}
    /\ UNCHANGED <<datasets, exists, rows, calls, concurrent>>
    /\ UNCHANGED <<retries, maxInsertAttempts, i, insertAttempt, wpc, checks, probes,
                   observed, answer>>

\* await ensureDataset(MAIN_DATASET)
ensureDatasetMain ==
    /\ status = "running"
    /\ pc = "ensureMain"
    /\ \/ /\ datasets' = datasets \cup {MAIN_DATASET}
          /\ Goto("ensureSnapshot")
          /\ UNCHANGED <<tbl, row, snapshot>>
       \/ /\ Throw
          /\ UNCHANGED datasets
    /\ UNCHANGED <<exists, rows>>
    /\ RunFrame

\* await ensureDataset(MIRROR_SNAPSHOT_DATASET), then the switch
ensureDatasetSnapshot ==
    /\ status = "running"
    /\ pc = "ensureSnapshot"
    /\ \/ /\ datasets' = datasets \cup {MIRROR_SNAPSHOT_DATASET}
          /\ UNCHANGED <<tbl, row, snapshot>>
          /\ CASE directive = "build" -> Goto("policyBindings")
               [] directive = "delete" -> Goto("getTables")
               [] directive = "default" -> pc' = "done" /\ status' = "ok"
               [] OTHER -> Goto("destExists")
       \/ /\ Throw
          /\ UNCHANGED datasets
    /\ UNCHANGED <<exists, rows>>
    /\ RunFrame

\* the role bindings swallow their errors; the grant query either completes
\* or throws into a catch block that reads `result`, which is not in scope
policyBindings ==
    /\ status = "running"
    /\ pc = "policyBindings"
    /\ \/ /\ Goto("tableExists")
          /\ tbl' = 1
          /\ row' = 0
          /\ snapshot' = dataOf(tablesToData[1])
       \/ Throw
    /\ UNCHANGED storeVars
    /\ RunFrame

\* ---------------------------------------------------------------- buildTables

tableName == tablesToData[tbl]

isIdentities(t) ==
    t \in {"identities_yesterday", "identities_today", "identities_tomorrow",
           "identities_day_after_tomorrow"}

\* createOrReplaceTable: const [exists] = await tableRef.exists()
createOrReplaceTable_exists ==
    /\ status = "running"
    /\ pc = "tableExists"
    /\ \/ IF exists[tableName] THEN Goto("tableDelete") ELSE Goto("createTable")
       \/ Goto("createTable")
    /\ UNCHANGED <<tbl, row, snapshot>>
    /\ UNCHANGED storeVars
    /\ RunFrame

\* createOrReplaceTable: await tableRef.delete(), errors are not fatal
createOrReplaceTable_delete ==
    /\ status = "running"
    /\ pc = "tableDelete"
    /\ \/ /\ exists' = [exists EXCEPT ![tableName] = FALSE]
          /\ rows' = [rows EXCEPT ![tableName] = DroppedRows(@)]
       \/ UNCHANGED <<exists, rows>>
    /\ Goto("createTable")
    /\ UNCHANGED <<tbl, row, snapshot, datasets>>
    /\ RunFrame

\* createOrReplaceTable: await dataset.createTable(table, { schema })
createOrReplaceTable_create ==
    /\ status = "running"
    /\ pc = "createTable"
    /\ \/ /\ ~exists[tableName]
          /\ exists' = [exists EXCEPT ![tableName] = TRUE]
          /\ unprobed' = unprobed \cup {tableName}
          /\ Goto("waitForTableToBeReady")
          /\ UNCHANGED <<tbl, row, snapshot>>
       \/ /\ Throw
          /\ UNCHANGED <<exists, unprobed>>
    /\ UNCHANGED <<datasets, rows, ret>>
    /\ CallFrame

\* the awaited call returned r: buildTables does not look at it
ProceedIfReady(r, p) ==
    IF r = "true" THEN Goto(p) ELSE pc' = pc /\ status' = "error"

Proceed(r, p) ==
    Goto(p)

\* await waitForTableToBeReady(tableObj): it returns true or false, or the
\* table.exists() in it throws
buildTables_wait ==
    /\ status = "running"
    /\ pc = "waitForTableToBeReady"
    /\ \/ \E r \in {"true", "false"} :
             /\ ret' = r
             /\ Proceed(r, IF isIdentities(tableName) THEN "insertSQL" ELSE "waitFreshTable")
             /\ row' = 1
             /\ UNCHANGED <<tbl, snapshot>>
       \/ /\ Throw
          /\ ret' = "threw"
    /\ unprobed' = unprobed \ {tableName}
    /\ UNCHANGED storeVars
    /\ CallFrame

\* the table is loaded: on to the next entry, or out of buildTables
NextTable ==
    /\ row' = 0
    /\ IF tbl < Len(tablesToData)
       THEN /\ tbl' = tbl + 1
            /\ snapshot' = dataOf(tablesToData[tbl + 1])
            /\ Goto("tableExists")
       ELSE /\ tbl' = tbl
            /\ snapshot' = <<>>
            /\ Goto("destExists")

\* await bq.query({ query: rowToInsertSQL(tableName, row) }), row by row
buildTables_insertSQL ==
    /\ status = "running"
    /\ pc = "insertSQL"
    /\ \/ /\ exists[tableName]
          /\ StatementValid(rowToInsertSQL(tableName, snapshot[row]))
          /\ rows' = [rows EXCEPT ![tableName] =
                Append(@, InsertedRow(rowToInsertSQL(tableName, snapshot[row])))]
          /\ IF row < Len(snapshot)
             THEN row' = row + 1 /\ UNCHANGED <<tbl, snapshot>> /\ Goto("insertSQL")
             ELSE NextTable
       \/ /\ Throw
          /\ UNCHANGED rows
    /\ UNCHANGED <<datasets, exists>>
    /\ RunFrame

\* await waitForTableToBeReady(freshTable, 30, 500)
buildTables_waitFresh ==
    /\ status = "running"
    /\ pc = "waitFreshTable"
    /\ \/ \E r \in {"true", "false"} :
             /\ ret' = r
             /\ Proceed(r, "insertRows")
             /\ UNCHANGED <<tbl, row, snapshot>>
       \/ /\ Throw
          /\ ret' = "threw"
    /\ unprobed' = unprobed \ {tableName}
    /\ UNCHANGED storeVars
    /\ CallFrame

\* const [exists] = await tableObj.exists(); if (!exists) throw ...
existsAtInsertAssumed(t) ==
    TRUE

existsAtInsert(t) ==
    exists[t]

\* await insertRows(freshTable, rows): the existence check, then the
\* streaming insert of every row
insertRows ==
    /\ status = "running"
    /\ pc = "insertRows"
    /\ \/ /\ existsAtInsert(tableName)
          /\ rows' = [rows EXCEPT ![tableName] = @ \o snapshot]
          /\ NextTable
       \/ /\ Throw
          /\ UNCHANGED rows
    /\ UNCHANGED <<datasets, exists>>
    /\ RunFrame

\* ---------------------------------------------------------------- setCurrentIdentityGraph

\* const [destExists] = await ...table('current_identity_graph').exists()
destExistsUnchecked ==
    FALSE

destExists ==
    exists[CURRENT]

\* 1. Ensure the destination table exists (create if missing)
setCurrent_destExists ==
    /\ status = "running"
    /\ pc = "destExists"
    /\ WhichOf(directive) \in valid
    /\ \/ /\ IF destExists THEN Goto("clear") ELSE Goto("createDest")
          /\ UNCHANGED <<tbl, row, snapshot>>
       \/ Throw
    /\ UNCHANGED storeVars
    /\ RunFrame

\* await bq.dataset(datasetId).createTable('current_identity_graph', { schema })
setCurrent_createTable ==
    /\ status = "running"
    /\ pc = "createDest"
    /\ \/ /\ ~exists[CURRENT]
          /\ exists' = [exists EXCEPT ![CURRENT] = TRUE]
          /\ unprobed' = unprobed \cup {CURRENT}
          /\ Goto("clear")
          /\ UNCHANGED <<tbl, row, snapshot>>
       \/ /\ Throw
          /\ UNCHANGED <<exists, unprobed>>
    /\ UNCHANGED <<datasets, rows, ret>>
    /\ CallFrame

\* 2. Delete all from destination (DML)
setCurrent_delete ==
    /\ status = "running"
    /\ pc = "clear"
    /\ \/ /\ exists[CURRENT]
          /\ rows' = [rows EXCEPT ![CURRENT] = DeleteAllFrom(@)]
          /\ Goto("copy")
          /\ UNCHANGED <<tbl, row, snapshot>>
       \/ /\ Throw
          /\ UNCHANGED rows
    /\ UNCHANGED <<datasets, exists>>
    /\ RunFrame

\* 3. Insert all from source (DML)
setCurrent_insert ==
    /\ status = "running"
    /\ pc = "copy"
    /\ \/ /\ exists[CURRENT]
          /\ exists[srcTable(WhichOf(directive))]
          /\ rows' = CopyAll(rows, CURRENT, srcTable(WhichOf(directive)))
          /\ Goto("materialize")
          /\ UNCHANGED <<tbl, row, snapshot>>
       \/ /\ Throw
          /\ UNCHANGED rows
    /\ UNCHANGED <<datasets, exists>>
    /\ RunFrame

\* ---------------------------------------------------------------- materializeIdentityPermutations

materializeIdentityPermutations ==
    /\ status = "running"
    /\ pc = "materialize"
    /\ \/ /\ exists[CURRENT]
          /\ exists' = [exists EXCEPT ![PERM] = TRUE]
          /\ rows' = [rows EXCEPT
                ![PERM] = CreateOrReplaceAs(@, MaterializeQuery(rows[CURRENT]))]
          /\ pc' = "done"
          /\ status' = "ok"
          /\ UNCHANGED <<tbl, row, snapshot>>
       \/ /\ Throw
          /\ UNCHANGED <<exists, rows>>
    /\ UNCHANGED datasets
    /\ RunFrame

\* ---------------------------------------------------------------- deleteAllTables

\* const [tables] = await bq.dataset(MAIN_DATASET).getTables()
deleteAllTables_getTables ==
    /\ status = "running"
    /\ pc = "getTables"
    /\ \/ /\ Goto("deleteAll")
          /\ UNCHANGED <<tbl, row, snapshot>>
       \/ Throw
    /\ UNCHANGED storeVars
    /\ RunFrame

\* await Promise.all(tables.map(t => t.delete({ ignoreNotFound: true }))):
\* every delete is issued; the call rejects when one of them fails
deleteAllTables_deleteAll ==
    /\ status = "running"
    /\ pc = "deleteAll"
    /\ \E failed \in SUBSET {t \in TableNames : exists[t]} :
          /\ exists' = [t \in TableNames |-> t \in failed]
          /\ rows' = [t \in TableNames |-> IF t \in failed THEN rows[t] ELSE DroppedRows(rows[t])]
          /\ IF failed = {}
             THEN pc' = "done" /\ status' = "ok" /\ UNCHANGED <<tbl, row, snapshot>>
             ELSE Throw
    /\ UNCHANGED datasets
    /\ RunFrame

\* the caller gives the run up between two awaited stages
Abandon ==
    /\ status = "running"
    /\ status' = "abandoned"
    /\ UNCHANGED <<pc, tbl, row, snapshot>>
    /\ UNCHANGED storeVars
    /\ RunFrame

Next ==
    \/ \E d \in Directives : main(d)
    \/ Abandon
    \/ ensureDatasetMain
    \/ ensureDatasetSnapshot
    \/ policyBindings
    \/ createOrReplaceTable_exists
    \/ createOrReplaceTable_delete
    \/ createOrReplaceTable_create
    \/ buildTables_wait
    \/ buildTables_insertSQL
    \/ buildTables_waitFresh
    \/ insertRows
    \/ setCurrent_destExists
    \/ setCurrent_createTable
    \/ setCurrent_delete
    \/ setCurrent_insert
    \/ materializeIdentityPermutations
    \/ deleteAllTables_getTables
    \/ deleteAllTables_deleteAll

Spec == Init /\ [][Next]_vars

\* ---------------------------------------------------------------- materialization on any current graph

HarnessNames == {<<97>>, <<98>>, <<97, 98>>, <<99>>}
HarnessFirstSeen == {1, 2}
HarnessClusterIds == {<<99, 49>>, <<99, 50>>}

HarnessIdentities ==
    [identity : HarnessNames, type : {"user_id"}, first_seen : HarnessFirstSeen]

\* identities are unique by identity within one snapshot
UniqueIdentities(s) ==
    \A a, b \in 1..Len(s) : a # b => s[a].identity # s[b].identity

\* a current graph of k rows, one row per active cluster
HarnessGraph(k, c, s, t) ==
    SubSeq(<< [cluster_id |-> c, as_of |-> 1, identities |-> s],
              [cluster_id |-> CHOOSE d \in HarnessClusterIds : d # c,
               as_of |-> 0, identities |-> t] >>, 1, k)

\* materialize() is about to be called on some current graph; the
\* permutation relation holds the edge build left in it
MatInit ==
    /\ datasets = {MAIN_DATASET, MIRROR_SNAPSHOT_DATASET}
    /\ exists = [t \in TableNames |-> t \in {CURRENT, PERM}]
    /\ \E n \in 0..MaxIds : \E m \in 0..(MaxIds - n) :
          \E s \in [1..n -> HarnessIdentities] : \E t \in [1..m -> HarnessIdentities] :
             /\ UniqueIdentities(s)
             /\ UniqueIdentities(t)
             /\ \E c \in HarnessClusterIds, k \in 0..Cardinality(HarnessClusterIds) :
                   /\ k < 2 => m = 0
                   /\ k < 1 => n = 0
                   /\ rows = [x \in TableNames |->
                                CASE x = CURRENT -> HarnessGraph(k, c, s, t)
                                  [] x = PERM -> MaterializeQuery(identityGraphYesterday)
                                  [] OTHER -> <<>>]
    /\ directive = "materialize"
    /\ pc = "materialize"
    /\ status = "running"
    /\ tbl = 0
    /\ row = 0
    /\ snapshot = <<>>
    /\ runs = 0
    /\ trail = <<>>
    /\ calls = 0
    /\ unprobed = {}
    /\ concurrent = NoCalls
    /\ WaitIdle

\* the caller invokes materialize() once more, current untouched
MaterializeAgain ==
    /\ directive = "materialize"
    /\ pc = "done"
    /\ status = "ok"
    /\ calls + 1 < MaxCalls
    /\ calls' = calls + 1
    /\ Goto("materialize")
    /\ UNCHANGED <<directive, tbl, row, snapshot, runs, trail, unprobed, concurrent>>
    /\ UNCHANGED storeVars
    /\ UNCHANGED waitVars

MatNext ==
    \/ materializeIdentityPermutations
    \/ MaterializeAgain

SpecMat == MatInit /\ [][MatNext]_vars

\* ---------------------------------------------------------------- waitForTableToBeReady

Answers == {"accepted", "404", "PartialFailureError", "other"}

\* what the while loop does with the answer to the probe insert
onInsert404Ready(a) ==
    IF a = "other" THEN "again" ELSE "return true"

onInsert(a) ==
    CASE a = "accepted" -> "return true"
      [] a = "404" -> "sleep"
      [] a = "PartialFailureError" -> "return true"
      [] OTHER -> "again"

WaitFrame ==
    /\ UNCHANGED <<retries, maxInsertAttempts, calls, unprobed, concurrent>>
    /\ UNCHANGED storeVars
    /\ UNCHANGED runVars

\* a call waitForTableToBeReady(table, r, m) has been entered
WaitEntered(r, m) ==
    /\ retries = r
    /\ maxInsertAttempts = m
    /\ i = 0
    /\ insertAttempt = 0
    /\ wpc = "tableExists"
    /\ ret = "none"
    /\ checks = 0
    /\ probes = 0
    /\ observed = FALSE
    /\ answer = "none"

\* the for loop: its test, then const [exists] = await table.exists()
wait_tableExists ==
    /\ wpc = "tableExists"
    /\ IF i < retries
       THEN /\ checks' = checks + 1
            /\ \/ observed' = TRUE /\ wpc' = "probe" /\ ret' = ret
               \/ observed' = observed /\ wpc' = "sleepExists" /\ ret' = ret
               \/ observed' = observed /\ wpc' = "return" /\ ret' = "threw"
       ELSE /\ wpc' = "probe"
            /\ UNCHANGED <<checks, observed, ret>>
    /\ UNCHANGED <<i, insertAttempt, probes, answer>>
    /\ WaitFrame

\* await u.sleep(sleepTime); if (i === retries - 1) return false; i++
wait_sleepExists ==
    /\ wpc = "sleepExists"
    /\ IF i = retries - 1
       THEN wpc' = "return" /\ ret' = "false" /\ i' = i
       ELSE wpc' = "tableExists" /\ ret' = ret /\ i' = i + 1
    /\ UNCHANGED <<insertAttempt, checks, probes, observed, answer>>
    /\ WaitFrame

\* the while loop: its test, then await table.insert([dummyRecord])
wait_insert ==
    /\ wpc = "probe"
    /\ IF insertAttempt < maxInsertAttempts
       THEN /\ probes < MaxProbes
            /\ probes' = probes + 1
            /\ \E a \in Answers :
                  /\ answer' = a
                  /\ CASE onInsert(a) = "return true" -> wpc' = "return" /\ ret' = "true"
                       [] onInsert(a) = "sleep" -> wpc' = "sleepProbe" /\ ret' = ret
                       [] OTHER -> wpc' = "probe" /\ ret' = ret
       ELSE /\ wpc' = "return"
            /\ ret' = "false"
            /\ UNCHANGED <<probes, answer>>
    /\ UNCHANGED <<i, insertAttempt, checks, observed>>
    /\ WaitFrame

\* await u.sleep(sleepTime); insertAttempt++
wait_sleepInsert ==
    /\ wpc = "sleepProbe"
    /\ insertAttempt' = insertAttempt + 1
    /\ wpc' = "probe"
    /\ UNCHANGED <<i, ret, checks, probes, observed, answer>>
    /\ WaitFrame

WaitNext ==
    \/ wait_tableExists
    \/ wait_sleepExists
    \/ wait_insert
    \/ wait_sleepInsert

RunIdle ==
    /\ EmptyStore
    /\ directive = "none"
    /\ pc = "idle"
    /\ status = "idle"
    /\ tbl = 0
    /\ row = 0
    /\ snapshot = <<>>
    /\ runs = 0
    /\ trail = <<>>
    /\ calls = 0
    /\ unprobed = {}
    /\ concurrent = NoCalls

\* the calls buildTables makes: both budgets positive
WaitInit ==
    /\ RunIdle
    /\ \E r \in 1..MaxRetries, m \in 1..MaxInsertAttempts : WaitEntered(r, m)

SpecWait == WaitInit /\ [][WaitNext]_vars

\* any budgets, zero included
WaitAnyInit ==
    /\ RunIdle
    /\ \E r \in 0..MaxRetries, m \in 0..MaxInsertAttempts : WaitEntered(r, m)

SpecWaitAny == WaitAnyInit /\ [][WaitNext]_vars

\* ---------------------------------------------------------------- the DML inserts on any snapshot

\* the rows a snapshot handed to buildTables may have: as_of and first_seen
\* are dates or not
HarnessSnapshotRows ==
    [cluster_id : HarnessClusterIds,
     as_of : {0, InvalidDate},
     identities : {<< [identity |-> <<97>>, type |-> "anon_id", first_seen |-> f] >> :
                      f \in {1, InvalidDate}}]

\* buildTables has created the identities table of entry t and is at the
\* first INSERT of a snapshot of n rows; the entries before t are loaded
PutInit ==
    /\ datasets = {MAIN_DATASET, MIRROR_SNAPSHOT_DATASET}
    /\ \E t \in {k \in 1..Len(tablesToData) : isIdentities(tablesToData[k])} :
          /\ tbl = t
          /\ exists = [n \in TableNames |-> \E k \in 1..t : tablesToData[k] = n]
          /\ rows = [n \in TableNames |->
                        IF \E k \in 1..(t - 1) : tablesToData[k] = n
                        THEN dataOf(n) ELSE <<>>]
    /\ \E n \in 1..MaxSnapshotRows :
          \E s \in [1..n -> HarnessSnapshotRows] : snapshot = s
    /\ directive = "build"
    /\ pc = "insertSQL"
    /\ status = "running"
    /\ row = 1
    /\ runs = 1
    /\ trail = <<>>
    /\ calls = 0
    /\ unprobed = {}
    /\ concurrent = NoCalls
    /\ WaitIdle

PutNext ==
    buildTables_insertSQL

SpecPut == PutInit /\ [][PutNext]_vars

\* ---------------------------------------------------------------- insertRows on any store

\* buildTables is at insertRows for entry t, and the dataset holds whatever
\* tables its other clients left in it
InsertInit ==
    /\ datasets = {MAIN_DATASET, MIRROR_SNAPSHOT_DATASET}
    /\ \E t \in {k \in 1..Len(tablesToData) : ~isIdentities(tablesToData[k])} :
          /\ tbl = t
          /\ snapshot = dataOf(tablesToData[t])
    /\ \E found \in SUBSET TableNames :
          /\ exists = [n \in TableNames |-> n \in found]
          /\ rows = [n \in TableNames |-> <<>>]
    /\ directive = "build"
    /\ pc = "insertRows"
    /\ status = "running"
    /\ row = 1
    /\ runs = 1
    /\ trail = <<>>
    /\ calls = 0
    /\ unprobed = {}
    /\ concurrent = NoCalls
    /\ WaitIdle

InsertNext ==
    insertRows

SpecInsert == InsertInit /\ [][InsertNext]_vars

\* ---------------------------------------------------------------- setCurrentIdentityGraph, two calls at once

\* what a caller may pass as `which`
CallKeys == valid \cup {"next_week"}

CallIds == {1, 2}

\* the call p is at statement a; when it issued a DML statement, that is noted
CallMoves(p, a, noted) ==
    concurrent' =
        [concurrent EXCEPT
            !.at = [@ EXCEPT ![p] = a],
            !.issued = IF noted THEN Append(@, p) ELSE @]

CallFrames ==
    /\ UNCHANGED datasets
    /\ UNCHANGED runVars
    /\ UNCHANGED waitVars
    /\ UNCHANGED <<calls, unprobed>>

\* build has run, with or without its setCurrent and materialize; two calls
\* of setCurrentIdentityGraph are entered and neither is awaited first
CallsInit ==
    /\ datasets = {MAIN_DATASET, MIRROR_SNAPSHOT_DATASET}
    /\ \E c \in BOOLEAN :
          /\ exists = [n \in TableNames |-> IF n \in {CURRENT, PERM} THEN c ELSE TRUE]
          /\ rows = [n \in TableNames |->
                        CASE n = CURRENT -> IF c THEN identityGraphYesterday ELSE <<>>
                          [] n = PERM ->
                                IF c THEN MaterializeQuery(identityGraphYesterday) ELSE <<>>
                          [] OTHER -> dataOf(n)]
    /\ \E v, w \in CallKeys :
          concurrent = [which |-> <<v, w>>, at |-> <<"entered", "entered">>,
                        issued |-> <<>>]
    /\ directive = "none"
    /\ pc = "idle"
    /\ status = "idle"
    /\ tbl = 0
    /\ row = 0
    /\ snapshot = <<>>
    /\ runs = 0
    /\ trail = <<>>
    /\ calls = 0
    /\ unprobed = {}
    /\ WaitIdle

\* if (!valid.includes(which)) throw ...; then the exists() of the destination
call_destExists(p) ==
    /\ concurrent.at[p] = "entered"
    /\ IF concurrent.which[p] \in valid
       THEN \/ CallMoves(p, IF destExists THEN "clear" ELSE "createDest", FALSE)
            \/ CallMoves(p, "threw", FALSE)
       ELSE CallMoves(p, "threw", FALSE)
    /\ UNCHANGED <<exists, rows>>
    /\ CallFrames

\* await bq.dataset(datasetId).createTable('current_identity_graph', { schema })
call_createTable(p) ==
    /\ concurrent.at[p] = "createDest"
    /\ \/ /\ ~exists[CURRENT]
          /\ exists' = [exists EXCEPT ![CURRENT] = TRUE]
          /\ CallMoves(p, "clear", FALSE)
       \/ /\ CallMoves(p, "threw", FALSE)
          /\ UNCHANGED exists
    /\ UNCHANGED rows
    /\ CallFrames

\* 2. Delete all from destination (DML)
call_delete(p) ==
    /\ concurrent.at[p] = "clear"
    /\ \/ /\ exists[CURRENT]
          /\ rows' = [rows EXCEPT ![CURRENT] = DeleteAllFrom(@)]
          /\ CallMoves(p, "copy", TRUE)
       \/ /\ CallMoves(p, "threw", FALSE)
          /\ UNCHANGED rows
    /\ UNCHANGED exists
    /\ CallFrames

\* 3. Insert all from source (DML)
call_insert(p) ==
    /\ concurrent.at[p] = "copy"
    /\ \/ /\ exists[CURRENT]
          /\ srcTable(concurrent.which[p]) \in TableNames
          /\ exists[srcTable(concurrent.which[p])]
          /\ rows' = CopyAll(rows, CURRENT, srcTable(concurrent.which[p]))
          /\ CallMoves(p, "returned", TRUE)
       \/ /\ CallMoves(p, "threw", FALSE)
          /\ UNCHANGED rows
    /\ UNCHANGED exists
    /\ CallFrames

CallsNext ==
    \E p \in CallIds :
        \/ call_destExists(p)
        \/ call_createTable(p)
        \/ call_delete(p)
        \/ call_insert(p)

SpecCalls == CallsInit /\ [][CallsNext]_vars

\* ---------------------------------------------------------------- properties of the materialization

\* the ids of the rows of a permutation relation that belong to cluster c, in stored order
EdgeIdsOf(c, perm) ==
    LET sel == SelectSeq(perm, LAMBDA e : e.cluster_id = c)
    IN  [k \in 1..Len(sel) |-> sel[k].ids]

Max(a, b) == IF a >= b THEN a ELSE b

\* ascending by (first_seen, identity), stated on the keys
KeyLeq(x, y) ==
    \/ x.first_seen < y.first_seen
    \/ /\ x.first_seen = y.first_seen
       /\ (x.identity = y.identity \/ StrLess(x.identity, y.identity))

\* the identities in ascending key order
AscendingByKey(identities) ==
    LET N == Len(identities)
        p == CHOOSE q \in [1..N -> 1..N] :
                /\ \A a, b \in 1..N : a # b => q[a] # q[b]
                /\ \A k \in 1..(N - 1) : KeyLeq(identities[q[k]], identities[q[k + 1]])
    IN  [k \in 1..N |-> identities[p[k]]]

\* the adjacent pairs of the ascending order; the lone identity when there is one
AdjacentPairs(identities) ==
    LET S == AscendingByKey(identities)
    IN  IF Len(S) = 1 THEN << <<S[1].identity>> >>
        ELSE [k \in 1..(Len(S) - 1) |-> <<S[k].identity, S[k + 1].identity>>]

SeqRange(s) == {s[k] : k \in 1..Len(s)}

Materialized ==
    /\ directive = "materialize"
    /\ pc = "done"
    /\ status = "ok"

\* C4: a cluster row with N >= 1 identities gets exactly max(N-1, 1) edges;
\* for N = 1 the one edge has a single id, for N > 1 every edge has two ids.
C4_EdgeCount ==
    Materialized =>
        \A r \in 1..Len(rows[CURRENT]) :
            LET N == Len(rows[CURRENT][r].identities)
                E == EdgeIdsOf(rows[CURRENT][r].cluster_id, rows[PERM])
            IN  N >= 1 =>
                    /\ Len(E) = Max(N - 1, 1)
                    /\ N = 1 => Len(E[1]) = 1
                    /\ N > 1 => \A k \in 1..Len(E) : Len(E[k]) = 2

\* a graph with a single-identity cluster and a three-identity cluster was materialized
C4_Witness ==
    /\ Materialized
    /\ \E r \in 1..Len(rows[CURRENT]) : Len(rows[CURRENT][r].identities) = 1
    /\ \E r \in 1..Len(rows[CURRENT]) : Len(rows[CURRENT][r].identities) = 3
    /\ Len(rows[PERM]) = 3

\* C5 as stated: the adjacent pairs of the ascending order are the cluster's
\* materialized edges, in membership and in order.
C5_ChainInOrder ==
    Materialized =>
        \A r \in 1..Len(rows[CURRENT]) :
            Len(rows[CURRENT][r].identities) >= 1 =>
                EdgeIdsOf(rows[CURRENT][r].cluster_id, rows[PERM])
                    = AdjacentPairs(rows[CURRENT][r].identities)

\* C5 amended: the adjacent pairs of the ascending order are the cluster's
\* materialized edges in membership and number (the stored order is that of
\* the joined ids string, not the chain order).
C5_ChainMembership ==
    Materialized =>
        \A r \in 1..Len(rows[CURRENT]) :
            Len(rows[CURRENT][r].identities) >= 1 =>
                LET E == EdgeIdsOf(rows[CURRENT][r].cluster_id, rows[PERM])
                    A == AdjacentPairs(rows[CURRENT][r].identities)
                IN  /\ SeqRange(E) = SeqRange(A)
                    /\ Len(E) = Len(A)

\* a three-identity cluster whose chain is stored in another order than the chain's
C5_Witness ==
    /\ Materialized
    /\ \E r \in 1..Len(rows[CURRENT]) :
          /\ Len(rows[CURRENT][r].identities) = 3
          /\ EdgeIdsOf(rows[CURRENT][r].cluster_id, rows[PERM])
                # AdjacentPairs(rows[CURRENT][r].identities)

\* C9: a materialize() call made after another one, current untouched in
\* between, leaves the permutation relation with the content it had.
C9_MaterializeIdempotent ==
    [][(pc = "materialize" /\ pc' = "done" /\ calls >= 1)
          => rows'[PERM] = rows[PERM]]_vars

\* the second call returned on a graph that has edges
C9_Witness ==
    /\ Materialized
    /\ calls = 1
    /\ Len(rows[PERM]) >= 2

\* ---------------------------------------------------------------- properties of the pipeline

Transitions ==
    {"transition-today", "transition-tomorrow", "transition-day-after-tomorrow"}

\* setCurrentIdentityGraph has just returned
SetCurrentCompleted ==
    /\ directive \in Transitions \cup {"build"}
    /\ status = "running"
    /\ pc = "materialize"

\* every run so far returned, and the snapshot tables built then are still there
SnapshotsBuilt ==
    \/ directive = "build"
    \/ /\ trail # Broken
       /\ \E k \in 1..Len(trail) : trail[k] = "build"
       /\ \A k \in 1..Len(trail) : trail[k] # "delete"

\* C1: a setCurrent(d) that completes leaves current with exactly the rows of
\* identities_d, whatever current held before; when build populated
\* identities_d these are the rows of d's snapshot.
C1_TransitionDeterminism ==
    SetCurrentCompleted =>
        /\ exists[CURRENT]
        /\ rows[CURRENT] = rows[srcTable(WhichOf(directive))]
        /\ SnapshotsBuilt => rows[CURRENT] = dataOf(srcTable(WhichOf(directive)))

\* current held tomorrow's snapshot and setCurrent('today') completed
C1_Witness ==
    /\ SetCurrentCompleted
    /\ trail = <<"build", "transition-tomorrow">>
    /\ directive = "transition-today"
    /\ rows[CURRENT] = identityGraphToday

\* C2: when the clear succeeded and the copy failed, current is there with
\* zero rows and main has thrown.
C2_CopyFailureLeavesEmpty ==
    (pc = "copy" /\ status = "error") =>
        /\ exists[CURRENT]
        /\ rows[CURRENT] = <<>>

\* the copy of transition-today failed after yesterday's rows were cleared
C2_Witness ==
    /\ pc = "copy"
    /\ status = "error"
    /\ trail = <<"build">>
    /\ directive = "transition-today"
    /\ rows[CURRENT] = <<>>
    /\ rows["identities_today"] = identityGraphToday

\* the runs ds were made in this order from the empty store and all returned
After(ds) ==
    /\ status = "ok"
    /\ pc = "done"
    /\ trail # Broken
    /\ Append(trail, directive) = ds

PermIds == [k \in 1..Len(rows[PERM]) |-> rows[PERM][k].ids]

Scenario1 == <<"build">>
Scenario2 == <<"build", "transition-today">>
Scenario3 == <<"build", "transition-today", "transition-tomorrow">>
Scenario4 ==
    <<"build", "transition-today", "transition-tomorrow",
      "transition-day-after-tomorrow">>

C10_IdempotentRebuild ==
    (After(<<"build">>) \/ After(<<"build", "build">>)) =>
        /\ rows[CURRENT] = identityGraphYesterday
        /\ rows[PERM] =
              << [cluster_id |-> something_unique_123, as_of |-> -1440,
                  ids |-> <<foo>>, on_behalf_of |-> foo,
                  distinct_ids_json |-> [distinct_ids |-> <<foo>>]] >>
        /\ \A k \in 1..Len(tablesToData) :
              /\ exists[tablesToData[k]]
              /\ rows[tablesToData[k]] = dataOf(tablesToData[k])

\* the second build has returned
C10_Witness ==
    /\ After(<<"build", "build">>)
    /\ Len(rows[CURRENT]) = 1

\* ---------------------------------------------------------------- properties of waitForTableToBeReady

\* C3 as stated: the writability phase makes at most maxInsertAttempts probe
\* writes, whatever the answers: every answer that is not a success uses up
\* an attempt.
C3_ProbesWithinMaxAttempts ==
    probes <= maxInsertAttempts

\* C7 as stated: at most `retries` existence checks, none after the first
\* that observes the table, and without an observation the call reports
\* false and makes no probe write; for every value of retries, 0 included.
C7_ExistencePolling ==
    /\ checks <= retries
    /\ observed => wpc \notin {"tableExists", "sleepExists"}
    /\ ~observed =>
          \/ wpc \in {"tableExists", "sleepExists"}
          \/ wpc = "return" /\ ret \in {"false", "threw"} /\ probes = 0

\* C8: true is returned only after existence was observed and the probe was
\* accepted or rejected for its content; a 404 sends the loop to sleep and
\* returns nothing; when every one of maxInsertAttempts probes was answered
\* 404 the call returns false.
C8_WritabilityClassification ==
    /\ [](ret = "true" => observed /\ answer \in {"PartialFailureError", "accepted"})
    /\ [][(probes' # probes /\ answer' = "404")
            => (wpc' = "sleepProbe" /\ ret' = "none")]_vars
    /\ [][(wpc = "probe" /\ insertAttempt = probes /\ probes = maxInsertAttempts)
            => (wpc' = "return" /\ ret' = "false")]_vars

\* a probe answered 404 was retried and the retry was rejected for its content
C8_Witness ==
    /\ ret = "true"
    /\ observed
    /\ answer = "PartialFailureError"
    /\ insertAttempt >= 1

\* ---------------------------------------------------------------- setCurrent and the current relation

\* the statements of setCurrentIdentityGraph
SetCurrentSteps == {"destExists", "createDest", "clear", "copy"}

\* C11: setCurrent issues createTable for current only when current is absent,
\* never makes an existing current absent, makes it present only by that
\* createTable, and changes its rows only in the delete-all and copy-all
\* statements.
C11_TableIdentityPreserved ==
    /\ []((status = "running" /\ pc = "createDest") => ~exists[CURRENT])
    /\ [][(status = "running" /\ pc \in SetCurrentSteps) =>
            /\ exists[CURRENT] => exists'[CURRENT]
            /\ exists'[CURRENT] # exists[CURRENT] => pc = "createDest"
            /\ rows'[CURRENT] # rows[CURRENT] => pc \in {"clear", "copy"}]_vars

\* setCurrent('today') completed on the current relation that build created
C11_Witness ==
    /\ SetCurrentCompleted
    /\ trail = <<"build">>
    /\ directive = "transition-today"
    /\ exists[CURRENT]
    /\ rows[CURRENT] = identityGraphToday

\* the row of the snapshot is one the INSERT statement can be run for
WellFormed(r) ==
    StatementValid(rowToInsertSQL("identities", r))

\* C12 as stated: when the INSERT of a malformed row of the snapshot fails,
\* the day-key relation holds no row of that snapshot, the rows before the
\* malformed one included.
C12_MalformedLoadsNothing ==
    (status = "error" /\ pc = "insertSQL" /\ ~WellFormed(snapshot[row])) =>
        rows[tableName] = <<>>

\* C13 as stated: no failure inside policyBindings raises out of it, so main
\* never ends in error at the policyBindings call.
C13_PolicyFailureNeverBlocks ==
    pc = "policyBindings" => status # "error"

\* C14 as stated: a run of main that takes the default branch creates,
\* changes and deletes nothing in the store; run first, it leaves the store
\* as it was before any run.
C14_DefaultMutatesNothing ==
    (directive = "default" /\ runs = 1) => EmptyStore

\* C15 as stated: a run of main that takes the default branch never raises,
\* however the store answers.
C15_DefaultAlwaysSucceeds ==
    directive = "default" => status # "error"

\* C16 as stated: the existence and the rows of the current relation change
\* only in the statements of setCurrent.
C16_OnlySetCurrentMutatesCurrent ==
    [][(exists'[CURRENT] # exists[CURRENT] \/ rows'[CURRENT] # rows[CURRENT]) =>
            pc \in SetCurrentSteps]_vars

\* C17: in every reachable state, the states left by a failed step included,
\* the current relation is absent, empty, or holds exactly the rows of one
\* day key's snapshot.
C17_WholesaleReplace ==
    \/ ~exists[CURRENT] /\ rows[CURRENT] = <<>>
    \/ exists[CURRENT] /\ rows[CURRENT] = <<>>
    \/ exists[CURRENT] /\ \E w \in valid : rows[CURRENT] = dataOf(srcTable(w))

\* an earlier run failed, and current went from another day's snapshot to
\* tomorrow's
C17_Witness ==
    /\ trail = Broken
    /\ directive = "transition-tomorrow"
    /\ status = "ok"
    /\ rows[CURRENT] = identityGraphTomorrow

\* C18: when a build or transition directive has returned, the permutation
\* relation is exactly the materialization of the rows current holds then.
C18_DerivedStateConsistency ==
    (status = "ok" /\ directive \in Transitions \cup {"build"}) =>
        /\ exists[PERM]
        /\ rows[PERM] = MaterializeQuery(rows[CURRENT])

\* transition-today returned after transition-tomorrow: the two edges of
\* tomorrow's chain gave way to the one edge of today's
C18_Witness ==
    /\ After(<<"build", "transition-tomorrow", "transition-today">>)
    /\ Len(rows[PERM]) = 1
    /\ rows[CURRENT] = identityGraphToday

\* C19: main returns only from its last statement, and once the delete-all,
\* copy-all or materialize statement has failed the store is left alone and
\* the failed statement is not issued again: the only step is the next run.
C19_StatementErrorsFatal ==
    /\ [](status = "ok" => pc = "done")
    /\ [][(status = "error" /\ pc \in {"clear", "copy", "materialize"}) =>
            /\ UNCHANGED storeVars
            /\ runs' = runs + 1]_vars

\* the delete-all of transition-today failed: yesterday's rows are still in
\* current and the copy was not issued
C19_Witness ==
    /\ status = "error"
    /\ pc = "clear"
    /\ directive = "transition-today"
    /\ trail = <<"build">>
    /\ rows[CURRENT] = identityGraphYesterday

\* C20 as stated: a failure while the stale relation is removed ends the
\* build there, so createTable is never issued for a relation still in place.
C20_ProvisioningErrorsAbort ==
    (status = "running" /\ pc = "createTable") => ~exists[tableName]

\* ---------------------------------------------------------------- provisioning and readiness

\* C21 as stated: createTable is issued for a relation only once the old
\* relation of that name is gone, and when createOrReplaceTable has returned
\* the relation is there with none of the old rows.
C21_CreateAfterDeleteCompleted ==
    /\ (status = "running" /\ pc = "createTable") => ~exists[tableName]
    /\ (status = "running" /\ pc = "waitForTableToBeReady") =>
            (exists[tableName] /\ rows[tableName] = <<>>)

\* C22 as stated: a relation the run created holds no rows until
\* waitForTableToBeReady has been called on it.
C22_ReadinessBeforeWrite ==
    \A t \in unprobed : rows[t] = <<>>

\* C23: when waitForTableToBeReady returns false in build, buildTables goes
\* on to the load of that relation (for a raw table: to the second wait, then
\* insertRows); the run is not ended and the store is as it was.
C23_OptimisticProceed ==
    [][(/\ status = "running"
        /\ pc \in {"waitForTableToBeReady", "waitFreshTable"}
        /\ status' # "abandoned"
        /\ ret' = "false") =>
            /\ status' = "running"
            /\ pc' = IF pc = "waitFreshTable" THEN "insertRows"
                     ELSE IF isIdentities(tableName) THEN "insertSQL"
                     ELSE "waitFreshTable"
            /\ UNCHANGED storeVars]_vars

\* the last wait of build returned false, the rows were loaded and build returned
C23_Witness ==
    /\ directive = "build"
    /\ status = "ok"
    /\ ret = "false"
    /\ rows["identities_day_after_tomorrow"] = identityGraphDayAfterTomorrow

DayKeyTables == {srcTable(w) : w \in valid}

\* C24: no step of a transition directive and no materialization changes the
\* existence or the rows of a day-key relation.
C24_SnapshotsImmutable ==
    [][(directive \in Transitions \/ pc = "materialize") =>
            \A t \in DayKeyTables :
                /\ exists'[t] = exists[t]
                /\ rows'[t] = rows[t]]_vars

\* two transitions returned and the snapshots they copied are as build left them
C24_Witness ==
    /\ After(<<"build", "transition-today", "transition-tomorrow">>)
    /\ rows[CURRENT] = identityGraphTomorrow
    /\ rows["identities_today"] = identityGraphToday
    /\ rows["identities_tomorrow"] = identityGraphTomorrow

\* C25: whenever a build has returned, whatever runs were abandoned or failed
\* before it and wherever they stopped, current and the permutation relation
\* are those a build on the empty store leaves.
C25_RestartSafety ==
    (status = "ok" /\ directive = "build") =>
        /\ exists[CURRENT]
        /\ exists[PERM]
        /\ rows[CURRENT] = identityGraphYesterday
        /\ rows[PERM] = MaterializeQuery(identityGraphYesterday)

\* a build returned after an earlier run was abandoned or failed
C25_Witness ==
    /\ status = "ok"
    /\ directive = "build"
    /\ trail = Broken
    /\ rows[CURRENT] = identityGraphYesterday
    /\ Len(rows[PERM]) = 1

\* ---------------------------------------------------------------- two setCurrent calls at once

BothReturned == concurrent.at = <<"returned", "returned">>

\* one call issued its clear and its copy before the other issued either
Sequential == concurrent.issued \in {<<1, 1, 2, 2>>, <<2, 2, 1, 1>>}

\* current holds exactly one day key's snapshot
SingleSnapshot == \E w \in valid : rows[CURRENT] = dataOf(srcTable(w))

\* C26: when both calls have returned, current holds a single snapshot
\* exactly when their clear and copy statements did not interleave; every
\* interleaving leaves the rows of both calls in current.
C26_RaceMixesSnapshots ==
    BothReturned =>
        /\ SingleSnapshot <=> Sequential
        /\ ~Sequential =>
              \/ rows[CURRENT] = dataOf(srcTable(concurrent.which[1]))
                                    \o dataOf(srcTable(concurrent.which[2]))
              \/ rows[CURRENT] = dataOf(srcTable(concurrent.which[2]))
                                    \o dataOf(srcTable(concurrent.which[1]))

\* setCurrent('today') and setCurrent('tomorrow') both returned and current
\* holds today's row and tomorrow's
C26_Witness ==
    /\ BothReturned
    /\ concurrent.which = <<"today", "tomorrow">>
    /\ rows[CURRENT] = identityGraphToday \o identityGraphTomorrow

\* the day keys of the identity graph
DayKeys == {"yesterday", "today", "tomorrow", "day_after_tomorrow"}

\* C29: the only step of a call whose key is not a day key is the throw, and
\* it leaves every dataset, relation and row as it was.
C29_InvalidKeyThrowsFirst ==
    [][\A p \in CallIds :
          (concurrent.which[p] \notin DayKeys /\ concurrent'.at[p] # concurrent.at[p]) =>
              /\ concurrent'.at[p] = "threw"
              /\ UNCHANGED storeVars]_vars

\* setCurrent('next_week') has thrown; current and the permutation relation
\* are as build left them
C29_Witness ==
    /\ concurrent.which = <<"next_week", "today">>
    /\ concurrent.at = <<"threw", "entered">>
    /\ rows[CURRENT] = identityGraphYesterday
    /\ rows[PERM] = MaterializeQuery(identityGraphYesterday)

\* ---------------------------------------------------------------- output order, insertRows, stale edges

StrLeq(s, t) == s = t \/ StrLess(s, t)

\* C27: the rows of the permutation relation ascend by cluster_id and, within
\* one cluster_id, by the comma-joined ids.
C27_OutputOrdering ==
    Materialized =>
        \A k \in 1..(Len(rows[PERM]) - 1) :
            LET e == rows[PERM][k]
                f == rows[PERM][k + 1]
            IN  \/ StrLess(e.cluster_id, f.cluster_id)
                \/ /\ e.cluster_id = f.cluster_id
                   /\ StrLeq(ARRAY_TO_STRING(e.ids), ARRAY_TO_STRING(f.ids))

\* two clusters were materialized, one with two edges, and the cluster that
\* comes first has the later as_of
C27_Witness ==
    /\ Materialized
    /\ Len(rows[PERM]) >= 3
    /\ rows[PERM][1].cluster_id = rows[PERM][2].cluster_id
    /\ rows[PERM][1].cluster_id # rows[PERM][Len(rows[PERM])].cluster_id
    /\ rows[PERM][1].as_of > rows[PERM][Len(rows[PERM])].as_of

\* C28: insertRows on a table that is not there throws and writes no row
\* anywhere; a call that throws for any reason writes nothing, and a call that
\* returns has appended all its rows to that table and to no other.
C28_InsertRevalidatesExistence ==
    [][(status = "running" /\ pc = "insertRows") =>
            /\ ~exists[tableName] => (status' = "error" /\ rows' = rows)
            /\ status' = "error" => rows' = rows
            /\ status' = "running" =>
                  rows' = [rows EXCEPT ![tableName] = @ \o snapshot]]_vars

\* insertRows threw on server_logs, which was not there, while other tables were
C28_Witness ==
    /\ pc = "insertRows"
    /\ status = "error"
    /\ tableName = "server_logs"
    /\ ~exists["server_logs"]
    /\ exists["website_data"]
    /\ rows = [n \in TableNames |-> <<>>]

\* the directive of the run before this one
LastDone == trail[Len(trail)]

\* C30: when a transition fails in its clear or its copy and the run before it
\* was a build or a transition that returned, the permutation relation still
\* holds that run's materialization, and current holds that run's snapshot
\* (clear failed) or nothing (copy failed).
C30_StaleEdgesAfterFailedTransition ==
    (/\ directive \in Transitions
     /\ status = "error"
     /\ pc \in {"clear", "copy"}
     /\ trail # Broken
     /\ trail # <<>>
     /\ LastDone \in Transitions \cup {"build"}) =>
        /\ rows[PERM] = MaterializeQuery(dataOf(srcTable(WhichOf(LastDone))))
        /\ rows[CURRENT] = IF pc = "clear" THEN dataOf(srcTable(WhichOf(LastDone)))
                           ELSE <<>>

\* the copy of transition-tomorrow failed: current is empty and the
\* permutation relation holds today's edge
C30_Witness ==
    /\ directive = "transition-tomorrow"
    /\ status = "error"
    /\ pc = "copy"
    /\ trail = <<"build", "transition-today">>
    /\ rows[CURRENT] = <<>>
    /\ Len(rows[PERM]) = 1
    /\ rows[PERM] # MaterializeQuery(rows[CURRENT])

\* ---------------------------------------------------------------- empty graphs, stored order of identities

\* the cluster ids of the rows of a graph
ClusterIdsOf(cur) == {cur[r].cluster_id : r \in 1..Len(cur)}

\* C31: materialize() on a current relation without rows leaves the
\* permutation relation without rows; a cluster row without identities gets
\* no edge; no edge of the relation replaced is kept.
C31_EmptyGraphsMaterialize ==
    Materialized =>
        /\ exists[PERM]
        /\ rows[CURRENT] = <<>> => rows[PERM] = <<>>
        /\ \A r \in 1..Len(rows[CURRENT]) :
              rows[CURRENT][r].identities = <<>> =>
                  EdgeIdsOf(rows[CURRENT][r].cluster_id, rows[PERM]) = <<>>
        /\ \A k \in 1..Len(rows[PERM]) :
              rows[PERM][k].cluster_id \in ClusterIdsOf(rows[CURRENT])

\* materialize() returned on a current relation without rows
C31_Witness ==
    /\ Materialized
    /\ rows[CURRENT] = <<>>
    /\ rows[PERM] = <<>>
    /\ calls = 0

\* the graph with the identities at a and b of row r exchanged
Exchanged(cur, r, a, b) ==
    [cur EXCEPT ![r].identities =
        [k \in 1..Len(@) |-> IF k = a THEN @[b] ELSE IF k = b THEN @[a] ELSE @[k]]]

\* C32: exchanging two neighbouring identities in the array of any cluster
\* row of the current graph gives the same materialized rows, in the same
\* order; every current graph being one of the runs and every permutation a
\* chain of such exchanges, this is so for every permutation of the array.
C32_StoredOrderIndependence ==
    Materialized =>
        \A r \in 1..Len(rows[CURRENT]) :
            \A a \in 1..(Len(rows[CURRENT][r].identities) - 1) :
                MaterializeQuery(Exchanged(rows[CURRENT], r, a, a + 1)) = rows[PERM]

\* a cluster stored with the later of two identities of equal first_seen
\* first was materialized, and a third identity after them
C32_Witness ==
    /\ Materialized
    /\ \E r \in 1..Len(rows[CURRENT]) :
          LET ids == rows[CURRENT][r].identities
          IN  /\ Len(ids) = 3
              /\ ids[1].first_seen = ids[2].first_seen
              /\ StrLess(ids[2].identity, ids[1].identity)
              /\ ids[3].first_seen > ids[1].first_seen

====
